---- MODULE Spec2Model ----
(***************************************************************************)
(* cc::fifo<Tp, Nm> (include/cc/fifo.hxx) and cc::buffer<Tp, Nm>           *)
(* (cc/buffer.hxx) as state machines: one action per public method.       *)
(*                                                                         *)
(* The observation variables op, arg, status, out, reads and it record    *)
(* the last call: its name, its arguments, whether it threw               *)
(* std::out_of_range, what it returned or wrote to the caller, which      *)
(* physical slots of the array it read, and the m_index of the iterator   *)
(* it returned.                                                            *)
(***************************************************************************)
EXTENDS Integers, Sequences, FiniteSets, TLC

\* ---- bounds -------------------------------------------------------------
\* Capacity of the fifo under test (template parameter Nm).
Nm == 2
\* Capacity of the buffer under test (template parameter Nm).
BufNm == 3
\* Values callers push: 1..MaxVal.
MaxVal == 2
\* end() never reduces the cursors, so repeated passes let them grow without
\* limit: a pass is taken only while m_head <= MaxCursor.
MaxCursor == 4

\* std::size_t arithmetic is modulo 2^w; w = 16 stands for the platform's 64.
SizeMod == 2 ^ 16

\* Values a caller stores.
Values == 1 .. MaxVal
\* Bit patterns a slot (or memory next to the array) may hold: a caller's
\* value, or 0 for anything no caller stored.
AnyVal == 0 .. MaxVal
\* Physical slots of the fifo's std::array<Tp, Nm>.
Slots == 0 .. (Nm - 1)
\* Physical slots of the buffer's std::array<Tp, Nm>.
BufSlots == 0 .. (BufNm - 1)
\* Source ranges handed to push_list: up to Nm + 1 elements.
SrcLists == UNION {[1 .. n -> Values] : n \in 0 .. (Nm + 1)}
\* Counts handed to pop_list, 0 meaning "omitted".
PopCounts == 0 .. (Nm + 1)
\* Indices handed to buffer::get / assign / reset.
BufIndices == 0 .. (BufNm + 1)

VARIABLES
    m_head,   \* fifo: m_head.m_index, index of the next value to write
    m_tail,   \* fifo: m_tail.m_index, index of the next value to read
    arr,      \* fifo: the inherited std::array<Tp, Nm>
    m_used,   \* buffer: number of elements considered used
    barr,     \* buffer: the inherited std::array<Tp, Nm>
    op,       \* name of the last call
    arg,      \* arguments of the last call, as a sequence
    status,   \* "ok" or "out_of_range"
    out,      \* values the last call returned / wrote to the destination
    reads,    \* array indices the last call read, in order
    it        \* m_index of the iterator the last call returned (begin/end)

fifoVars == <<m_head, m_tail, arr>>
bufVars == <<m_used, barr>>
obsVars == <<op, arg, status, out, reads, it>>
vars == <<m_head, m_tail, arr, m_used, barr, op, arg, status, out, reads, it>>

\* ---- helpers ------------------------------------------------------------
\* Unsigned subtraction on std::size_t.
USub(a, b) == (a - b + SizeMod) % SizeMod

Min(a, b) == IF a < b THEN a ELSE b
Max(a, b) == IF a > b THEN a ELSE b

\* The caller-visible record of a call.
Observe(o, a, s, r, rd, i) ==
    /\ op' = o
    /\ arg' = a
    /\ status' = s
    /\ out' = r
    /\ reads' = rd
    /\ it' = i

\* ---- cc::fifo: capacity -------------------------------------------------
size == USub(m_head, m_tail)

\* Mutant: emptiness judged on the reduced head.
empty_reduced == m_head % Nm = m_tail

empty == m_head = m_tail

\* Mutant: free space counted from the reduced head alone.
free_from_head == USub(Nm, m_head % Nm)

free == USub(Nm, size)

\* Mutant: fullness judged by the head alone.
full_head_only == m_head = Nm

full == m_head = (m_tail + Nm) % SizeMod

head_modulo == m_head % Nm

\* Mutant: the tail is reduced, the head is not.
increment_tail_keep_head(incr) ==
    LET t == (m_tail + incr) % SizeMod
    IN  IF t >= Nm
        THEN [tail |-> USub(t, Nm), head |-> m_head]
        ELSE [tail |-> t, head |-> m_head]

\* increment_tail(incr) called with the cursors at tl and hd: the cursors
\* after the call.
increment_tail_at(tl, hd, incr) ==
    LET t == (tl + incr) % SizeMod
    IN  IF t >= Nm
        THEN [tail |-> USub(t, Nm), head |-> USub(hd, Nm)]
        ELSE [tail |-> t, head |-> hd]

\* increment_tail(incr): the cursors after the call.
increment_tail(incr) == increment_tail_at(m_tail, m_head, incr)

\* Values that reading the array at the indices idx (a sequence) can give:
\* array[i] for i < Nm, whatever lies behind the array otherwise
\* (std::array::operator[] does not check).
ReadsOf(idx) ==
    {g \in [1 .. Len(idx) -> AnyVal] :
        \A k \in 1 .. Len(idx) : idx[k] \in Slots => g[k] = arr[idx[k]]}

\* ---- cc::fifo: construction ---------------------------------------------
\* fifo(): cursors at 0, the array default-initialised (indeterminate).
InitFifo ==
    /\ m_head = 0
    /\ m_tail = 0
    /\ arr \in [Slots -> AnyVal]

\* buffer(): m_used 0, the array default-initialised (indeterminate).
InitBuffer ==
    /\ m_used = 0
    /\ barr \in [BufSlots -> AnyVal]

InitObs ==
    /\ op = "init"
    /\ arg = <<>>
    /\ status = "ok"
    /\ out = <<>>
    /\ reads = <<>>
    /\ it = 0

\* ---- cc::fifo: capacity calls ---------------------------------------------
\* A call of a const capacity method, which returns r.
Capacity(o, r) ==
    /\ UNCHANGED fifoVars
    /\ Observe(o, <<>>, "ok", <<r>>, <<>>, 0)
    /\ UNCHANGED bufVars

call_size == Capacity("size", size)

call_empty == Capacity("empty", empty)

call_free == Capacity("free", free)

call_full == Capacity("full", full)

\* ---- cc::fifo: modifying element access ----------------------------------
\* Mutant: push without the full() check.
push_unchecked(v) ==
    /\ arr' = [arr EXCEPT ![m_head % Nm] = v]
    /\ m_head' = (m_head + 1) % SizeMod
    /\ m_tail' = m_tail
    /\ Observe("push", <<v>>, "ok", <<>>, <<>>, 0)
    /\ UNCHANGED bufVars

push(v) ==
    /\ IF full
       THEN /\ UNCHANGED fifoVars
            /\ Observe("push", <<v>>, "out_of_range", <<>>, <<>>, 0)
       ELSE /\ arr' = [arr EXCEPT ![head_modulo] = v]
            /\ m_head' = (m_head + 1) % SizeMod
            /\ m_tail' = m_tail
            /\ Observe("push", <<v>>, "ok", <<>>, <<>>, 0)
    /\ UNCHANGED bufVars

pop ==
    /\ IF empty
       THEN /\ UNCHANGED fifoVars
            /\ Observe("pop", <<>>, "out_of_range", <<>>, <<>>, 0)
       ELSE /\ \E g \in ReadsOf(<<m_tail>>) :
                  Observe("pop", <<>>, "ok", g, <<m_tail>>, 0)
            /\ m_tail' = increment_tail(1).tail
            /\ m_head' = increment_tail(1).head
            /\ arr' = arr
    /\ UNCHANGED bufVars

\* The array after std::copy(src + from, src + from + n, data() + at).
CopyIn(a, src, from, n, at) ==
    [i \in Slots |-> IF i >= at /\ i < at + n THEN src[from + (i - at) + 1] ELSE a[i]]

\* Mutant: the first run is placed at m_head, not at head_modulo().
push_list_unreduced(src) ==
    LET n == Len(src)
        n1 == Min(n, USub(Nm, m_head))
        n2 == USub(n, n1)
    IN  /\ IF free < n
           THEN /\ UNCHANGED fifoVars
                /\ Observe("push_list", src, "out_of_range", <<>>, <<>>, 0)
           ELSE /\ arr' = CopyIn(CopyIn(arr, src, 0, n1, m_head), src, n1, n2, 0)
                /\ m_head' = (m_head + n) % SizeMod
                /\ m_tail' = m_tail
                /\ Observe("push_list", src, "ok", <<>>, <<>>, 0)
        /\ UNCHANGED bufVars

push_list(src) ==
    LET n == Len(src)
        n1 == Min(n, USub(Nm, head_modulo))
        n2 == USub(n, n1)
    IN  /\ IF free < n
           THEN /\ UNCHANGED fifoVars
                /\ Observe("push_list", src, "out_of_range", <<>>, <<>>, 0)
           ELSE /\ arr' = CopyIn(CopyIn(arr, src, 0, n1, head_modulo), src, n1, n2, 0)
                /\ m_head' = (m_head + n) % SizeMod
                /\ m_tail' = m_tail
                /\ Observe("push_list", src, "ok", <<>>, <<>>, 0)
        /\ UNCHANGED bufVars

\* The array indices pop_list reads for a count of n: the run from m_tail,
\* then the run from the start of the array.
PopListReads(n) ==
    LET n1 == Min(n, USub(Nm, m_tail))
        n2 == USub(n, n1)
    IN  [k \in 1 .. n |-> IF k <= n1 THEN m_tail + (k - 1) ELSE k - n1 - 1]

\* Mutant: the count is checked against max_size() instead of size().
pop_list_capacity_check(n0) ==
    /\ IF n0 > 0 /\ n0 > Nm
       THEN /\ UNCHANGED fifoVars
            /\ Observe("pop_list", <<n0>>, "out_of_range", <<>>, <<>>, 0)
       ELSE LET n == IF n0 = 0 THEN size ELSE n0
            IN  /\ \E g \in ReadsOf(PopListReads(n)) :
                      Observe("pop_list", <<n0>>, "ok", g, PopListReads(n), 0)
                /\ m_tail' = increment_tail(n).tail
                /\ m_head' = increment_tail(n).head
                /\ arr' = arr
    /\ UNCHANGED bufVars

pop_list(n0) ==
    /\ IF n0 > 0 /\ n0 > size
       THEN /\ UNCHANGED fifoVars
            /\ Observe("pop_list", <<n0>>, "out_of_range", <<>>, <<>>, 0)
       ELSE LET n == IF n0 = 0 THEN size ELSE n0
            IN  /\ \E g \in ReadsOf(PopListReads(n)) :
                      Observe("pop_list", <<n0>>, "ok", g, PopListReads(n), 0)
                /\ m_tail' = increment_tail(n).tail
                /\ m_head' = increment_tail(n).head
                /\ arr' = arr
    /\ UNCHANGED bufVars

\* Mutant: only the tail is reset.
clear_tail_only ==
    /\ m_tail' = 0
    /\ m_head' = m_head
    /\ arr' = arr
    /\ Observe("clear", <<>>, "ok", <<>>, <<>>, 0)
    /\ UNCHANGED bufVars

clear ==
    /\ m_tail' = 0
    /\ m_head' = 0
    /\ arr' = arr
    /\ Observe("clear", <<>>, "ok", <<>>, <<>>, 0)
    /\ UNCHANGED bufVars

\* ---- cc::fifo: iterators -------------------------------------------------
begin ==
    /\ UNCHANGED fifoVars
    /\ Observe("begin", <<>>, "ok", <<>>, <<>>, m_tail)
    /\ UNCHANGED bufVars

\* Mutant: end() returns the head without moving the tail, as cend() does.
end_keeps_tail ==
    /\ m_head <= MaxCursor
    /\ UNCHANGED fifoVars
    /\ Observe("end", <<>>, "ok", <<>>, <<>>, m_head)
    /\ UNCHANGED bufVars

\* end(): m_tail += size(); return m_head.
end ==
    /\ m_head <= MaxCursor
    /\ m_tail' = (m_tail + size) % SizeMod
    /\ m_head' = m_head
    /\ arr' = arr
    /\ Observe("end", <<>>, "ok", <<>>, <<>>, m_head)
    /\ UNCHANGED bufVars

cbegin ==
    /\ UNCHANGED fifoVars
    /\ Observe("cbegin", <<>>, "ok", <<>>, <<>>, m_tail)
    /\ UNCHANGED bufVars

cend ==
    /\ UNCHANGED fifoVars
    /\ Observe("cend", <<>>, "ok", <<>>, <<>>, m_head)
    /\ UNCHANGED bufVars

\* iterator: operator!=, operator* (m_array[m_index % Nm]) and operator++
\* applied from index i until the iterator equals e: the slots dereferenced.
RECURSIVE IterSlots(_, _)
IterSlots(i, e) ==
    IF i = e THEN <<>> ELSE <<i % Nm>> \o IterSlots((i + 1) % SizeMod, e)

\* Mutant: end() is taken before begin(), so the pass starts at the head.
for_loop_end_first ==
    /\ m_head <= MaxCursor
    /\ m_tail' = (m_tail + size) % SizeMod
    /\ m_head' = m_head
    /\ arr' = arr
    /\ Observe("for_loop", <<>>, "ok", <<>>, <<>>, m_head)
    /\ UNCHANGED bufVars

\* for(const auto& v : data): begin(), then end(), then the loop.
for_loop ==
    LET b == m_tail
        e == m_head
        sl == IterSlots(b, e)
    IN  /\ m_head <= MaxCursor
        /\ m_tail' = (m_tail + size) % SizeMod
        /\ m_head' = m_head
        /\ arr' = arr
        /\ Observe("for_loop", <<>>, "ok", [k \in 1 .. Len(sl) |-> arr[sl[k]]], sl, e)
        /\ UNCHANGED bufVars

\* ---- cc::buffer ----------------------------------------------------------
buffer_size == m_used

buffer_empty == buffer_size = 0

buffer_free == USub(BufNm, m_used)

\* get(n): what the call gives in the current state; std::array::at(n)
\* throws std::out_of_range for n >= Nm.
get_result(n) ==
    IF n > m_used
    THEN [status |-> "out_of_range", value |-> <<>>]
    ELSE IF n >= BufNm
         THEN [status |-> "out_of_range", value |-> <<>>]
         ELSE [status |-> "ok", value |-> <<barr[n]>>]

get(n) ==
    /\ UNCHANGED bufVars
    /\ Observe("get", <<n>>, get_result(n).status, get_result(n).value,
               IF get_result(n).status = "ok" THEN <<n>> ELSE <<>>, 0)
    /\ UNCHANGED fifoVars

\* Mutant: operator[] instead of at(), so n is not checked against Nm.
assign_unchecked(n, v) ==
    /\ barr' = [i \in BufSlots |-> IF i = n THEN v ELSE barr[i]]
    /\ m_used' = Max(m_used, (n + 1) % SizeMod)
    /\ Observe("assign", <<n, v>>, "ok", <<>>, <<>>, 0)
    /\ UNCHANGED fifoVars

\* Mutant: the size is set to n + 1 even when it was larger.
assign_shrinks(n, v) ==
    /\ IF n >= BufNm
       THEN /\ UNCHANGED bufVars
            /\ Observe("assign", <<n, v>>, "out_of_range", <<>>, <<>>, 0)
       ELSE /\ barr' = [barr EXCEPT ![n] = v]
            /\ m_used' = (n + 1) % SizeMod
            /\ Observe("assign", <<n, v>>, "ok", <<>>, <<>>, 0)
    /\ UNCHANGED fifoVars

assign(n, v) ==
    /\ IF n >= BufNm
       THEN /\ UNCHANGED bufVars
            /\ Observe("assign", <<n, v>>, "out_of_range", <<>>, <<>>, 0)
       ELSE /\ barr' = [barr EXCEPT ![n] = v]
            /\ m_used' = Max(m_used, (n + 1) % SizeMod)
            /\ Observe("assign", <<n, v>>, "ok", <<>>, <<>>, 0)
    /\ UNCHANGED fifoVars

\* Mutant: m_used is incremented before the checked write.
push_back_counts_first(v) ==
    /\ IF m_used >= BufNm
       THEN /\ barr' = barr
            /\ m_used' = (m_used + 1) % SizeMod
            /\ Observe("push_back", <<v>>, "out_of_range", <<>>, <<>>, 0)
       ELSE /\ barr' = [barr EXCEPT ![m_used] = v]
            /\ m_used' = (m_used + 1) % SizeMod
            /\ Observe("push_back", <<v>>, "ok", <<>>, <<>>, 0)
    /\ UNCHANGED fifoVars

push_back(v) ==
    /\ IF m_used >= BufNm
       THEN /\ UNCHANGED bufVars
            /\ Observe("push_back", <<v>>, "out_of_range", <<>>, <<>>, 0)
       ELSE /\ barr' = [barr EXCEPT ![m_used] = v]
            /\ m_used' = (m_used + 1) % SizeMod
            /\ Observe("push_back", <<v>>, "ok", <<>>, <<>>, 0)
    /\ UNCHANGED fifoVars

\* Mutant: the last element is returned but m_used is not decremented.
pop_back_keeps_size ==
    /\ IF m_used = 0 \/ USub(m_used, 1) >= BufNm
       THEN /\ UNCHANGED bufVars
            /\ Observe("pop_back", <<>>, "out_of_range", <<>>, <<>>, 0)
       ELSE /\ UNCHANGED bufVars
            /\ Observe("pop_back", <<>>, "ok", <<barr[USub(m_used, 1)]>>,
                       <<USub(m_used, 1)>>, 0)
    /\ UNCHANGED fifoVars

pop_back ==
    /\ IF m_used = 0 \/ USub(m_used, 1) >= BufNm
       THEN /\ UNCHANGED bufVars
            /\ Observe("pop_back", <<>>, "out_of_range", <<>>, <<>>, 0)
       ELSE /\ m_used' = USub(m_used, 1)
            /\ barr' = barr
            /\ Observe("pop_back", <<>>, "ok", <<barr[USub(m_used, 1)]>>,
                       <<USub(m_used, 1)>>, 0)
    /\ UNCHANGED fifoVars

reset(n) ==
    /\ m_used' = n
    /\ barr' = barr
    /\ Observe("reset", <<n>>, "ok", <<>>, <<>>, 0)
    /\ UNCHANGED fifoVars

fill_used(v) ==
    /\ barr' = [i \in BufSlots |-> IF i < m_used THEN v ELSE barr[i]]
    /\ m_used' = m_used
    /\ Observe("fill_used", <<v>>, "ok", <<>>, <<>>, 0)
    /\ UNCHANGED fifoVars

fill_all(v) ==
    /\ m_used' = BufNm
    /\ barr' = [i \in BufSlots |-> v]
    /\ Observe("fill_all", <<v>>, "ok", <<>>, <<>>, 0)
    /\ UNCHANGED fifoVars

\* ---- cc::buffer: iterators -------------------------------------------------
\* Iterators are pointers into the array, modelled as offsets from data().
\* begin() is inherited from std::array: data().
buffer_begin == 0

\* Mutant: the inherited std::array::end(), data() + Nm.
buffer_end_inherited == BufNm

\* end(): data() + m_used.
buffer_end == m_used

\* rbegin() is inherited from std::array: reverse_iterator(std::array::end()),
\* whose base is data() + Nm.
buffer_rbegin == BufNm

\* rend(): reverse_iterator(this->begin()), whose base is data().
buffer_rend == 0

\* The offsets a pointer dereferences when stepped with ++ from b until it
\* equals e.
RECURSIVE ForwardSlots(_, _)
ForwardSlots(b, e) ==
    IF b = e THEN <<>> ELSE <<b>> \o ForwardSlots(b + 1, e)

\* The offsets a std::reverse_iterator dereferences when stepped with ++
\* from base b until its base equals e: *it reads base - 1, ++it lowers base.
RECURSIVE ReverseSlots(_, _)
ReverseSlots(b, e) ==
    IF b = e THEN <<>> ELSE <<b - 1>> \o ReverseSlots(b - 1, e)

\* for(auto& v : buffer): begin(), end(), then the loop.
forward_loop ==
    LET sl == ForwardSlots(buffer_begin, buffer_end)
    IN  /\ UNCHANGED bufVars
        /\ Observe("forward_loop", <<>>, "ok", [k \in 1 .. Len(sl) |-> barr[sl[k]]], sl, 0)
        /\ UNCHANGED fifoVars

\* for(auto it = buffer.rbegin(); it != buffer.rend(); ++it).
reverse_loop ==
    LET sl == ReverseSlots(buffer_rbegin, buffer_rend)
    IN  /\ UNCHANGED bufVars
        /\ Observe("reverse_loop", <<>>, "ok", [k \in 1 .. Len(sl) |-> barr[sl[k]]], sl, 0)
        /\ UNCHANGED fifoVars

\* ---- specifications ------------------------------------------------------
\* No buffer is constructed next to the fifo under test.
NoBuffer ==
    /\ m_used = 0
    /\ barr = [i \in BufSlots |-> 0]

\* No fifo is constructed next to the buffer under test.
NoFifo ==
    /\ m_head = 0
    /\ m_tail = 0
    /\ arr = [i \in Slots |-> 0]

\* A fifo under every sequence of its public calls.
Init == InitFifo /\ NoBuffer /\ InitObs

Next ==
    \/ \E v \in Values : push(v)
    \/ pop
    \/ \E src \in SrcLists : push_list(src)
    \/ \E n \in PopCounts : pop_list(n)
    \/ clear
    \/ begin
    \/ end
    \/ cbegin
    \/ cend
    \/ for_loop
    \/ call_size
    \/ call_empty
    \/ call_free
    \/ call_full

Spec == Init /\ [][Next]_vars

\* A fifo under sequences of push and pop only, with the const capacity
\* methods called in between.
NextPushPop ==
    \/ \E v \in Values : push(v)
    \/ pop
    \/ call_size
    \/ call_empty
    \/ call_free
    \/ call_full

SpecPushPop == Init /\ [][NextPushPop]_vars

\* A fifo that a begin()/end() pass has just drained, under sequences of push
\* and pop with the const capacity methods called in between. The initial
\* states are the states in which end() returns: both cursors at the head h
\* the pass found, the slots below h written by earlier pushes, the others
\* holding whatever they held, and end()'s return value h observed.
InitAfterPass ==
    /\ m_head \in 0 .. MaxCursor
    /\ m_tail = m_head
    /\ arr \in [Slots -> AnyVal]
    /\ \A i \in Slots : i < m_head => arr[i] \in Values
    /\ NoBuffer
    /\ op = "end"
    /\ arg = <<>>
    /\ status = "ok"
    /\ out = <<>>
    /\ reads = <<>>
    /\ it = m_head

SpecAfterPass == InitAfterPass /\ [][NextPushPop]_vars

\* A buffer under every sequence of its public calls.
InitBuf == NoFifo /\ InitBuffer /\ InitObs

NextBuffer ==
    \/ \E n \in BufIndices : get(n)
    \/ \E n \in BufIndices, v \in Values : assign(n, v)
    \/ \E v \in Values : push_back(v)
    \/ pop_back
    \/ \E n \in 0 .. BufNm : reset(n)
    \/ \E v \in Values : fill_used(v)
    \/ \E v \in Values : fill_all(v)
    \/ forward_loop
    \/ reverse_loop

SpecBuffer == InitBuf /\ [][NextBuffer]_vars

\* ---- the fifo as a queue ---------------------------------------------------
\* The queue a fifo state stands for: the size() slots from the tail on,
\* oldest first.
Contents == [k \in 1 .. (m_head - m_tail) |-> arr[(m_tail + k - 1) % Nm]]

\* Every call changes Contents as the same call on a queue would.
ContentsIsQueue ==
    [][/\ (op' = "push" /\ status' = "ok") => Contents' = Append(Contents, arg'[1])
       /\ (op' = "push_list" /\ status' = "ok") => Contents' = Contents \o arg'
       /\ (op' = "pop" /\ status' = "ok") => Contents' = Tail(Contents)
       /\ (op' = "pop_list" /\ status' = "ok") =>
              Contents' = SubSeq(Contents, Len(out') + 1, Len(Contents))
       /\ op' \in {"clear", "end", "for_loop"} => Contents' = <<>>
       /\ (op' \in {"begin", "cbegin", "cend", "size", "empty", "free", "full"}
               \/ status' = "out_of_range") =>
              Contents' = Contents]_vars

\* n consecutive pop() calls with the cursors at tl and hd: the cursors after
\* them and the array indices they read.
RECURSIVE PopsFrom(_, _, _)
PopsFrom(tl, hd, n) ==
    IF n = 0
    THEN [tail |-> tl, head |-> hd, reads |-> <<>>]
    ELSE LET c == increment_tail_at(tl, hd, 1)
             r == PopsFrom(c.tail, c.head, n - 1)
         IN  [tail |-> r.tail, head |-> r.head, reads |-> <<tl>> \o r.reads]

\* push(v) for each v of src in order, on the array a with the head at hd:
\* the array and the head after them.
RECURSIVE PushesFrom(_, _, _)
PushesFrom(a, hd, src) ==
    IF src = <<>>
    THEN [arr |-> a, head |-> hd]
    ELSE PushesFrom([a EXCEPT ![hd % Nm] = Head(src)], (hd + 1) % SizeMod, Tail(src))

\* ---- claims ----------------------------------------------------------------
\* C1: under push and pop calls alone the fifo is a bounded queue of capacity
\* Nm: push appends its value to the queue unless Nm values are queued, pop
\* returns and removes the oldest value unless none is queued, and size() is
\* the length of the queue (pushes minus pops that succeeded).
PushPopIsBoundedQueue ==
    [][/\ op' = "push" =>
              IF Len(Contents) < Nm
              THEN status' = "ok" /\ Contents' = Append(Contents, arg'[1])
              ELSE status' = "out_of_range" /\ Contents' = Contents
       /\ op' = "pop" =>
              IF Len(Contents) > 0
              THEN /\ status' = "ok"
                   /\ out' = <<Head(Contents)>>
                   /\ Contents' = Tail(Contents)
              ELSE status' = "out_of_range" /\ Contents' = Contents
       /\ op' = "size" => out' = <<Len(Contents)>>
       /\ op' = "free" => out' = <<Nm - Len(Contents)>>
       /\ op' = "full" => out' = <<Len(Contents) = Nm>>
       /\ op' = "empty" => out' = <<Len(Contents) = 0>>
       /\ op' \in {"size", "free", "full", "empty"} => Contents' = Contents]_vars

\* A pop that read the last physical slot while the head cursor was beyond
\* Nm, so that both cursors were reduced and an element is still queued.
PushPopWrapped ==
    /\ op = "pop"
    /\ status = "ok"
    /\ reads = <<Nm - 1>>
    /\ m_tail = 0
    /\ m_head > 0
    /\ out[1] \in Values

\* C2: in every state 0 <= head - tail <= Nm, size() = head - tail,
\* free() = Nm - size(), full() iff size() = Nm, empty() iff size() = 0.
CursorInvariant ==
    /\ 0 <= m_head - m_tail
    /\ m_head - m_tail <= Nm
    /\ size = m_head - m_tail
    /\ free = Nm - size
    /\ full <=> (size = Nm)
    /\ empty <=> (size = 0)
    /\ op = "size" => out = <<m_head - m_tail>>
    /\ op = "free" => out = <<Nm - (m_head - m_tail)>>
    /\ op = "full" => out = <<m_head - m_tail = Nm>>
    /\ op = "empty" => out = <<m_head - m_tail = 0>>

\* A full fifo whose tail an iteration pass left beyond Nm, after a failing
\* call.
CursorInvariantCase ==
    /\ status = "out_of_range"
    /\ m_tail > Nm
    /\ m_head - m_tail = Nm

\* C3: push on a fifo holding Nm elements throws out_of_range and changes
\* neither cursor nor any slot.
PushFullFails ==
    [][(op' = "push" /\ m_head - m_tail = Nm) =>
           /\ status' = "out_of_range"
           /\ UNCHANGED <<m_head, m_tail, arr>>]_vars

\* A push refused while the cursors were wrapped.
PushFullCase ==
    /\ op = "push"
    /\ status = "out_of_range"
    /\ m_tail > 0
    /\ m_head > Nm

\* C4: pop on an empty fifo throws out_of_range and changes neither cursor
\* nor any slot; pop on a non-empty fifo does not throw, returns a value and
\* leaves one element less.
PopEmptyFails ==
    [][op' = "pop" =>
           IF m_head = m_tail
           THEN status' = "out_of_range" /\ UNCHANGED <<m_head, m_tail, arr>>
           ELSE /\ status' = "ok"
                /\ Len(out') = 1
                /\ m_head' - m_tail' = (m_head - m_tail) - 1
                /\ arr' = arr]_vars

\* A pop refused on a fifo emptied away from cursor 0.
PopEmptyCase ==
    /\ op = "pop"
    /\ status = "out_of_range"
    /\ m_tail > 0

\* C5: push_list of n elements throws out_of_range and changes neither cursor
\* nor any slot when n > free(); otherwise it succeeds and appends all n
\* elements to the queue.
PushListAllOrNothing ==
    [][op' = "push_list" =>
           IF Len(arg') > Nm - (m_head - m_tail)
           THEN status' = "out_of_range" /\ UNCHANGED <<m_head, m_tail, arr>>
           ELSE /\ status' = "ok"
                /\ m_head' - m_tail' = (m_head - m_tail) + Len(arg')
                /\ Contents' = Contents \o arg']_vars

\* A push_list refused on a partly filled fifo although the list alone would
\* fit the capacity.
PushListCase ==
    /\ op = "push_list"
    /\ status = "out_of_range"
    /\ Len(arg) <= Nm
    /\ m_head - m_tail > 0
    /\ m_head - m_tail < Nm

\* C6: pop_list with an explicit n > size() throws out_of_range, writes
\* nothing to the destination and changes neither cursor; pop_list with n
\* omitted (0) never throws and dequeues size() elements, leaving the fifo
\* empty.
PopListChecked ==
    [][op' = "pop_list" =>
           /\ arg'[1] > m_head - m_tail =>
                  /\ status' = "out_of_range"
                  /\ out' = <<>>
                  /\ UNCHANGED <<m_head, m_tail, arr>>
           /\ arg'[1] = 0 =>
                  /\ status' = "ok"
                  /\ Len(out') = m_head - m_tail
                  /\ m_head' = m_tail'
                  /\ arr' = arr]_vars

\* A pop_list refused on a non-empty fifo.
PopListCase ==
    /\ op = "pop_list"
    /\ status = "out_of_range"
    /\ arg[1] <= Nm
    /\ m_head - m_tail > 0

\* ContentsIsQueue's case: a pop_list of everything, taken in two runs.
PopListAllCase ==
    /\ op = "pop_list"
    /\ status = "ok"
    /\ arg = <<0>>
    /\ Len(out) = Nm
    /\ reads[1] > 0

\* C7: in any state, a push_list of k elements into an empty fifo followed
\* at once by pop_list(dst, k) writes those k elements in order to dst and
\* leaves the fifo empty with free() = Nm.
PushListPopListRoundTrip ==
    [][(/\ op = "push_list"
        /\ status = "ok"
        /\ m_head - m_tail = Len(arg)
        /\ op' = "pop_list"
        /\ arg' = <<Len(arg)>>) =>
           /\ status' = "ok"
           /\ out' = arg
           /\ m_head' = m_tail'
           /\ free' = Nm]_vars

\* The round trip holds from every state whose tail is at most Nm.
RoundTripTailInRange ==
    [][(/\ op = "push_list"
        /\ status = "ok"
        /\ m_head - m_tail = Len(arg)
        /\ m_tail <= Nm
        /\ op' = "pop_list"
        /\ arg' = <<Len(arg)>>) =>
           /\ status' = "ok"
           /\ out' = arg
           /\ m_head' = m_tail'
           /\ free' = Nm]_vars

\* C8: an iteration pass (begin(), end(), then stepping) visits size()
\* elements, the queue oldest first, the k-th dereference reading slot
\* (tail + k - 1) mod Nm.
ForLoopVisitsQueue ==
    [][op' = "for_loop" =>
           /\ Len(out') = m_head - m_tail
           /\ out' = Contents
           /\ reads' = [k \in 1 .. (m_head - m_tail) |-> (m_tail + k - 1) % Nm]
           /\ arr' = arr]_vars

\* A pass over a wrapped fifo: head beyond Nm, two distinct values visited.
ForLoopCase ==
    /\ op = "for_loop"
    /\ Len(out) >= 2
    /\ out[1] # out[2]
    /\ it > Nm
    /\ reads[Len(reads)] < reads[1]

\* C9: get(n) throws out_of_range when n >= size() and returns the element
\* at index n when n < size().
GetCheckedAgainstSize ==
    op = "get" =>
        IF arg[1] >= m_used
        THEN status = "out_of_range"
        ELSE status = "ok" /\ out = <<barr[arg[1]]>>

\* C10: assign(n, v) with n < Nm writes v at index n, so that get(n) then
\* returns v, makes size() the larger of the old size and n + 1 and changes
\* no other slot; with n >= Nm it throws and size() stays.
AssignWrites ==
    [][\A n \in BufIndices, v \in Values :
           (op' = "assign" /\ arg' = <<n, v>>) =>
               IF n < BufNm
               THEN /\ status' = "ok"
                    /\ barr' = [barr EXCEPT ![n] = v]
                    /\ m_used' = Max(m_used, n + 1)
                    /\ get_result(n)' = [status |-> "ok", value |-> <<v>>]
               ELSE /\ status' = "out_of_range"
                    /\ m_used' = m_used]_vars

\* An assign below the current size, which keeps the size.
AssignCase ==
    /\ op = "assign"
    /\ status = "ok"
    /\ arg[1] + 1 < m_used
    /\ barr[arg[1]] = arg[2]
    /\ \E i \in BufSlots : barr[i] # arg[2]

\* C11: push_back(v) with size() < Nm writes v at index size(), increments
\* size() by one and changes no other slot; with size() = Nm it throws
\* out_of_range and changes neither size() nor any slot.
PushBackChecked ==
    [][\A v \in Values :
           (op' = "push_back" /\ arg' = <<v>>) =>
               IF m_used < BufNm
               THEN /\ status' = "ok"
                    /\ barr' = [barr EXCEPT ![m_used] = v]
                    /\ m_used' = m_used + 1
               ELSE /\ status' = "out_of_range"
                    /\ m_used' = m_used
                    /\ barr' = barr]_vars

\* A push_back refused on a buffer of Nm elements.
PushBackCase ==
    /\ op = "push_back"
    /\ status = "out_of_range"
    /\ m_used = BufNm
    /\ \A i \in BufSlots : barr[i] # arg[1]

\* C12: pop_back() on an empty buffer throws out_of_range and size() stays
\* 0; otherwise it returns the element at index size() - 1 and decrements
\* size(), so that push_back(v) followed by pop_back() returns v and gives
\* back the size before the push_back.
PopBackReturnsLast ==
    [][op' = "pop_back" =>
           /\ IF m_used = 0
              THEN status' = "out_of_range" /\ m_used' = 0 /\ barr' = barr
              ELSE /\ status' = "ok"
                   /\ out' = <<barr[m_used - 1]>>
                   /\ m_used' = m_used - 1
                   /\ barr' = barr
           /\ (op = "push_back" /\ status = "ok") =>
                  /\ status' = "ok"
                  /\ out' = arg
                  /\ m_used' + 1 = m_used]_vars

\* A pop_back that returned a caller's value from the middle of the array.
PopBackCase ==
    /\ op = "pop_back"
    /\ status = "ok"
    /\ m_used > 0
    /\ m_used < BufNm - 1
    /\ out[1] \in Values

\* C13: reverse iteration (rbegin() to rend()) visits the first size()
\* elements, from index size() - 1 down to 0, and no slot at or beyond
\* size().
ReverseLoopVisitsUsed ==
    op = "reverse_loop" => reads = [k \in 1 .. m_used |-> m_used - k]

\* C14: forward iteration (begin() to end()) visits size() elements, the
\* indices 0 .. size() - 1 in ascending order; none on a fresh buffer.
ForwardLoopVisitsUsed ==
    op = "forward_loop" =>
        /\ Len(out) = m_used
        /\ reads = [k \in 1 .. m_used |-> k - 1]
        /\ out = [k \in 1 .. m_used |-> barr[k - 1]]

\* A forward pass over a partly used buffer.
ForwardLoopCase ==
    /\ op = "forward_loop"
    /\ Len(out) >= 2
    /\ Len(out) < BufNm
    /\ out[1] # out[2]

\* C15: after any sequence of buffer calls (reset(n) with n <= Nm),
\* 0 <= size() <= Nm and free() = Nm - size().
BufferSizeInvariant ==
    /\ buffer_size >= 0
    /\ buffer_size <= BufNm
    /\ buffer_free = BufNm - buffer_size

\* A full buffer after a call that failed.
BufferSizeCase ==
    /\ status = "out_of_range"
    /\ op \in {"push_back", "assign"}
    /\ m_used = BufNm

\* C16: clear() sets head and tail to 0, so that size() = 0, empty() and
\* free() = Nm, and changes no slot.
ClearResetsCursors ==
    [][op' = "clear" =>
           /\ m_head' = 0
           /\ m_tail' = 0
           /\ size' = 0
           /\ empty'
           /\ free' = Nm
           /\ arr' = arr]_vars

\* A clear() that left every slot holding a caller's value.
ClearCase ==
    /\ op = "clear"
    /\ m_head = 0
    /\ \A i \in Slots : arr[i] \in Values

\* C17: in every state the tail lies in [0, Nm), and pop() and pop_list read
\* array indices below Nm only.
TailInRange ==
    /\ m_tail \in Slots
    /\ op \in {"pop", "pop_list"} => \A k \in 1 .. Len(reads) : reads[k] \in Slots

\* C18: pop_list(dst, n) with 1 <= n <= size() does what n consecutive pop()
\* calls do: it reads the same array indices in the same order, hence gives
\* the same elements, leaves the same head and tail, and changes no slot.
PopListIsPops ==
    [][(op' = "pop_list" /\ status' = "ok" /\ arg'[1] >= 1) =>
           LET r == PopsFrom(m_tail, m_head, arg'[1])
           IN  /\ reads' = r.reads
               /\ out' = SubSeq(Contents, 1, arg'[1])
               /\ m_tail' = r.tail
               /\ m_head' = r.head
               /\ arr' = arr]_vars

\* The equivalence holds from every state whose tail is below Nm.
PopListIsPopsTailInRange ==
    [][(op' = "pop_list" /\ status' = "ok" /\ arg'[1] >= 1 /\ m_tail < Nm) =>
           LET r == PopsFrom(m_tail, m_head, arg'[1])
           IN  /\ reads' = r.reads
               /\ out' = SubSeq(Contents, 1, arg'[1])
               /\ m_tail' = r.tail
               /\ m_head' = r.head
               /\ arr' = arr]_vars

\* C19: push_list of n <= free() elements does what push() of each element
\* in order does: same head, tail and array; only slots (head + i) mod Nm,
\* 0 <= i < n, change, and the elements queued before are still queued.
PushListIsPushes ==
    [][(op' = "push_list" /\ status' = "ok") =>
           LET r == PushesFrom(arr, m_head, arg')
           IN  /\ arr' = r.arr
               /\ m_head' = r.head
               /\ m_tail' = m_tail
               /\ \A i \in Slots :
                      arr'[i] # arr[i] =>
                          \E k \in 0 .. (Len(arg') - 1) : i = (m_head + k) % Nm
               /\ SubSeq(Contents', 1, Len(Contents)) = Contents]_vars

\* A push_list copied in two runs: it started below the end of the array and
\* ended beyond it.
PushListWrapCase ==
    /\ op = "push_list"
    /\ status = "ok"
    /\ Len(arg) >= 2
    /\ m_head - Len(arg) >= m_tail
    /\ m_head - Len(arg) < Nm
    /\ m_head > Nm

EndReturnsInitAfterPass ==
    op = "end" =>
        /\ m_head \in 0 .. MaxCursor
        /\ m_tail = m_head
        /\ \A i \in Slots : i < m_head => arr[i] \in Values
        /\ arg = <<>> /\ status = "ok" /\ out = <<>> /\ reads = <<>> /\ it = m_head

\* C21: once a begin()/end() pass has drained the fifo, from whatever state
\* it was in, the fifo is an empty queue of capacity Nm: push appends its
\* value unless Nm values are queued, pop fails when none is queued and
\* otherwise reads an array index below Nm, returns the oldest value pushed
\* since the pass and removes it.
AfterPassIsQueue ==
    /\ Contents = <<>>
    /\ [][/\ op' = "push" =>
                 IF Len(Contents) < Nm
                 THEN status' = "ok" /\ Contents' = Append(Contents, arg'[1])
                 ELSE status' = "out_of_range" /\ Contents' = Contents
          /\ op' = "pop" =>
                 IF Len(Contents) > 0
                 THEN /\ status' = "ok"
                      /\ \A k \in 1 .. Len(reads') : reads'[k] \in Slots
                      /\ out' = <<Head(Contents)>>
                      /\ Contents' = Tail(Contents)
                 ELSE status' = "out_of_range" /\ Contents' = Contents]_vars

\* From every state with the tail below Nm push and pop act as on a queue and
\* keep the tail below Nm: the law holds after a pass that found the head
\* below Nm.
AfterPassBelowNm ==
    [][m_tail < Nm =>
           /\ op' = "push" =>
                  IF Len(Contents) < Nm
                  THEN status' = "ok" /\ Contents' = Append(Contents, arg'[1])
                  ELSE status' = "out_of_range" /\ Contents' = Contents
           /\ op' = "pop" =>
                  IF Len(Contents) > 0
                  THEN /\ status' = "ok"
                       /\ \A k \in 1 .. Len(reads') : reads'[k] \in Slots
                       /\ out' = <<Head(Contents)>>
                       /\ Contents' = Tail(Contents)
                       /\ m_tail' < Nm
                  ELSE status' = "out_of_range" /\ Contents' = Contents]_vars
====
